---- MODULE Spec2Model ----
(***************************************************************************)
(* Task dependency graph engine of taskweaver: the tasks table, the        *)
(* task_dependencies table, and the repository operations over them.       *)
(*                                                                         *)
(* Task identifiers (uuid4 in the program) are the integers 1..MaxTasks,   *)
(* handed out in order and never reused.  A row of task_dependencies is a  *)
(* record [task_id, blocker_id]; the table is the sequence of its rows in  *)
(* created_at order.  The last repository call is kept in `last`: its      *)
(* arguments, what it raised or returned, and the two tables as they were  *)
(* when it was made, so that what a call did can be stated of one state.   *)
(* Of a row of tasks only the columns the dependency engine reads are      *)
(* kept: status, llm_value and duration_min.                               *)
(***************************************************************************)
EXTENDS Integers, Sequences, FiniteSets, TLC

\* ------------------------------------------------------------------ bounds

\* how many tasks are ever created; the table of dependencies needs no bound
\* of its own, UNIQUE(task_id, blocker_id) bounds it
MaxTasks == 3

\* --------------------------------------------------------------- constants

TaskIds == 1 .. MaxTasks

PENDING == "pending"

IN_PROGRESS == "in_progress"

COMPLETED == "completed"

CANCELLED == "cancelled"

TaskStatus == {PENDING, IN_PROGRESS, COMPLETED, CANCELLED}

\* get_task's None, and the result of a SELECT that finds no row
NoTask == [status |-> "none"]

\* the TaskCreate inputs create_task is called with: the n-th task created
\* gets the n-th input (priorities 3, 1/4, 1/2, 2/4, then 3 again)
TaskCreate(n) ==
    CASE n = 1 -> [llm_value |-> 9, duration_min |-> 3]
      [] n = 2 -> [llm_value |-> 1, duration_min |-> 4]
      [] n = 3 -> [llm_value |-> 1, duration_min |-> 2]
      [] n = 4 -> [llm_value |-> 2, duration_min |-> 4]
      [] OTHER -> [llm_value |-> 9, duration_min |-> 3]

\* a call that returns nothing, or raised
NoReturn == [task_id |-> 0, blocker_id |-> 0]

\* outcomes of a repository call
OK == "ok"

TaskNotFoundError == "TaskNotFoundError"

ClosedError == "DependencyError: task is closed"

CycleError == "DependencyError: Dependency causes a cycle"

NotFoundError == "DependencyError: Dependency not found"

IntegrityError == "sqlite3.IntegrityError"

RecursionError == "RecursionError"

VARIABLES tasks, deps, next_id, last, callers

vars == <<tasks, deps, next_id, last, callers>>

\* ------------------------------------------------------------------ tables

Task(status, data) ==
    [status |-> status, llm_value |-> data.llm_value, duration_min |-> data.duration_min]

\* the two ids stored in each other's column
TaskDependency_swapped(task_id, blocker_id) == [task_id |-> blocker_id, blocker_id |-> task_id]

TaskDependency(task_id, blocker_id) == [task_id |-> task_id, blocker_id |-> blocker_id]

get_task(task_id) == tasks[task_id]

Range(s) == {s[i] : i \in 1 .. Len(s)}

\* UNIQUE(task_id, blocker_id) and CHECK(task_id != blocker_id) of the table
ConstraintsAllow(row) == row \notin Range(deps) /\ row.task_id # row.blocker_id

\* ----------------------------------------------------------------- queries

\* the query without its status filter
SELECT_ACTIVE_BLOCKERS_any_status(task_id) ==
    SelectSeq(deps, LAMBDA td : td.task_id = task_id)

SELECT_ACTIVE_BLOCKERS(task_id) ==
    SelectSeq(deps, LAMBDA td : /\ td.task_id = task_id
                               /\ tasks[td.blocker_id].status \in {PENDING, IN_PROGRESS})

\* the query joined with tasks and filtered like SELECT_ACTIVE_BLOCKERS
SELECT_BLOCKED_TASKS_active_only(blocker_id) ==
    SelectSeq(deps, LAMBDA td : /\ td.blocker_id = blocker_id
                               /\ tasks[td.task_id].status \in {PENDING, IN_PROGRESS})

\* the query ordered by the blocked task, newest task first, instead of by
\* the created_at of the row
SELECT_BLOCKED_TASKS_newest_task_first(blocker_id) ==
    LET rows == {td \in Range(deps) : td.blocker_id = blocker_id}
    IN  [i \in 1 .. Cardinality(rows) |->
            CHOOSE td \in rows : Cardinality({other \in rows : other.task_id > td.task_id}) = i - 1]

SELECT_BLOCKED_TASKS(blocker_id) ==
    SelectSeq(deps, LAMBDA td : td.blocker_id = blocker_id)

\* the statement with its WHERE clause naming the task only
DELETE_DEPENDENCY_by_task(task_id, blocker_id) ==
    SelectSeq(deps, LAMBDA td : td.task_id # task_id)

\* the rows the DELETE leaves
DELETE_DEPENDENCY(task_id, blocker_id) ==
    SelectSeq(deps, LAMBDA td : ~(td.task_id = task_id /\ td.blocker_id = blocker_id))

\* the ids of the Task objects returned, in the order returned
get_blockers(task_id) ==
    LET rows == SELECT_ACTIVE_BLOCKERS(task_id)
        found == SelectSeq(rows, LAMBDA row : get_task(row.blocker_id) # NoTask)
    IN  [i \in 1 .. Len(found) |-> found[i].blocker_id]

\* get_blocked returning only the pending and in_progress tasks blocked
get_blocked_active(blocker_id) ==
    LET rows == SELECT_BLOCKED_TASKS(blocker_id)
        found == SelectSeq(rows, LAMBDA row : get_task(row.task_id).status
                                                \in {PENDING, IN_PROGRESS})
    IN  [i \in 1 .. Len(found) |-> found[i].task_id]

get_blocked(blocker_id) ==
    LET rows == SELECT_BLOCKED_TASKS(blocker_id)
        found == SelectSeq(rows, LAMBDA row : get_task(row.task_id) # NoTask)
    IN  [i \in 1 .. Len(found) |-> found[i].task_id]

\* the search taking the edges in both directions: from a task to its
\* blockers and to the tasks it blocks
RECURSIVE cycle_bfs_undirected(_, _, _)
cycle_bfs_undirected(queue, visited, task_id) ==
    IF queue = <<>> THEN FALSE
    ELSE LET current == Head(queue)
         IN  IF current = task_id THEN TRUE
             ELSE IF current \in visited
             THEN cycle_bfs_undirected(Tail(queue), visited, task_id)
             ELSE cycle_bfs_undirected(
                      Tail(queue) \o get_blockers(current) \o get_blocked(current),
                      visited \cup {current}, task_id)

\* the loop of _cycle_check testing the visited set when a task is put on the
\* queue and not when it is taken off it
RECURSIVE while_queue_visited_on_extend(_, _, _, _, _)
while_queue_visited_on_extend(queue, visited, task_id, expanded, popped) ==
    IF queue = <<>>
    THEN [found |-> FALSE, expanded |-> expanded, popped |-> popped]
    ELSE LET current == Head(queue)
         IN  IF current = task_id
             THEN [found |-> TRUE, expanded |-> expanded, popped |-> popped + 1]
             ELSE while_queue_visited_on_extend(
                      Tail(queue) \o SelectSeq(get_blockers(current),
                                               LAMBDA b : b \notin visited \cup {current}),
                      visited \cup {current}, task_id,
                      Append(expanded, current), popped + 1)

\* the loop of _cycle_check with what it did: the tasks whose blockers it
\* looked up (queue.extend(... self.get_blockers(current))), in order, and the
\* number of queue.popleft() calls
RECURSIVE while_queue(_, _, _, _, _)
while_queue(queue, visited, task_id, expanded, popped) ==
    IF queue = <<>>
    THEN [found |-> FALSE, expanded |-> expanded, popped |-> popped]
    ELSE LET current == Head(queue)
         IN  IF current = task_id
             THEN [found |-> TRUE, expanded |-> expanded, popped |-> popped + 1]
             ELSE IF current \in visited
             THEN while_queue(Tail(queue), visited, task_id, expanded, popped + 1)
             ELSE while_queue(Tail(queue) \o get_blockers(current),
                              visited \cup {current}, task_id,
                              Append(expanded, current), popped + 1)

\* a run of _cycle_check(task_id, blocker_id): visited = set(), queue =
\* deque([blocker_id])
_cycle_check_run(task_id, blocker_id) == while_queue(<<blocker_id>>, {}, task_id, <<>>, 0)

\* the search stepping from a task to the tasks it blocks
RECURSIVE cycle_bfs_downstream(_, _, _)
cycle_bfs_downstream(queue, visited, task_id) ==
    IF queue = <<>> THEN FALSE
    ELSE LET current == Head(queue)
         IN  IF current = task_id THEN TRUE
             ELSE IF current \in visited
             THEN cycle_bfs_downstream(Tail(queue), visited, task_id)
             ELSE cycle_bfs_downstream(Tail(queue) \o get_blocked(current),
                                       visited \cup {current}, task_id)

RECURSIVE cycle_bfs(_, _, _)
cycle_bfs(queue, visited, task_id) ==
    IF queue = <<>> THEN FALSE
    ELSE LET current == Head(queue)
         IN  IF current = task_id THEN TRUE
             ELSE IF current \in visited THEN cycle_bfs(Tail(queue), visited, task_id)
             ELSE cycle_bfs(Tail(queue) \o get_blockers(current),
                            visited \cup {current}, task_id)

\* the search started from the blocked task, looking for the blocker
_cycle_check_from_task(task_id, blocker_id) == cycle_bfs(<<task_id>>, {}, blocker_id)

\* the search that does not compare the start node with task_id
_cycle_check_no_self(task_id, blocker_id) ==
    task_id # blocker_id /\ cycle_bfs(<<blocker_id>>, {}, task_id)

\* the check looking at the blockers of blocker_id only, not at theirs
_cycle_check_direct(task_id, blocker_id) ==
    task_id = blocker_id \/ task_id \in Range(get_blockers(blocker_id))

_cycle_check(task_id, blocker_id) == cycle_bfs(<<blocker_id>>, {}, task_id)

\* -------------------------------------------------------------- priorities

\* the quotient taken the wrong way round
priority_inverted(task) == [num |-> task.duration_min, den |-> task.llm_value]

\* Task.priority, llm_value / duration_min: kept as the fraction, since the
\* quotients of two small integers compare as floats the way the fractions do
priority(task) == [num |-> task.llm_value, den |-> task.duration_min]

\* the float 0.0
ZeroPriority == [num |-> 0, den |-> 1]

\* p > q, p >= q and p == q on priorities
Greater(p, q) == p.num * q.den > q.num * p.den

AtLeast(p, q) == p.num * q.den >= q.num * p.den

SamePriority(p, q) == p.num * q.den = q.num * p.den

\* the scan of max over its arguments: the first of the greatest values
RECURSIVE greatest(_, _)
greatest(best, rest) ==
    IF rest = <<>> THEN best
    ELSE greatest(IF Greater(Head(rest), best) THEN Head(rest) ELSE best, Tail(rest))

\* the greatest of the downstream priorities, the task's own left out
max_of_downstream(first, rest) == greatest(Head(rest), Tail(rest))

\* max(first, *rest)
max(first, rest) == greatest(first, rest)

\* ORDER BY created_at DESC: identifiers are handed out in creation order
RECURSIVE ORDER_BY_created_at_DESC(_)
ORDER_BY_created_at_DESC(ids) ==
    IF ids = {} THEN <<>>
    ELSE LET newest == CHOOSE id \in ids : \A other \in ids : other <= id
         IN  <<newest>> \o ORDER_BY_created_at_DESC(ids \ {newest})

\* the WHERE clause of the view tasks_full
CREATE_VIEW_TASKS_FULL(task_id) == tasks[task_id].status \in {PENDING, IN_PROGRESS}

\* blocked_count of the view: the rows of task_dependencies naming the task as
\* blocker, grouped without a join on tasks
tasks_blocked_count(task_id) ==
    Cardinality({i \in 1 .. Len(deps) : deps[i].blocker_id = task_id})

\* blocker_count of the view: the rows naming the task as blocked task, joined
\* with the blocker's row and kept when the blocker is active
active_blocker_count(task_id) ==
    Cardinality({i \in 1 .. Len(deps) :
                    /\ deps[i].task_id = task_id
                    /\ tasks[deps[i].blocker_id].status \in {PENDING, IN_PROGRESS}})

\* SELECT * FROM tasks_full ORDER BY created_at DESC
list_tasks_with_deps ==
    LET ids == ORDER_BY_created_at_DESC({id \in DOMAIN tasks : CREATE_VIEW_TASKS_FULL(id)})
    IN  [i \in 1 .. Len(ids) |->
            [task_id |-> ids[i],
             status |-> tasks[ids[i]].status,
             priority |-> priority(tasks[ids[i]]),
             tasks_blocked_count |-> tasks_blocked_count(ids[i]),
             active_blocker_count |-> active_blocker_count(ids[i])]]

\* what a call of _calculate_recursive leaves: whether it ended in
\* RecursionError, the memo, and the value returned
Returned(raised, memo, value) == [raised |-> raised, memo |-> memo, value |-> value]

\* the helper taking the intrinsic priorities of the blocked tasks instead of
\* recursing into them
_calculate_recursive_one_level(task_id, memo, stack) ==
    IF task_id \in DOMAIN memo THEN Returned(FALSE, memo, memo[task_id])
    ELSE LET task == get_task(task_id)
             blocked_tasks == get_blocked(task_id)
             effective == max(priority(task),
                              [i \in 1 .. Len(blocked_tasks) |->
                                  priority(get_task(blocked_tasks[i]))])
         IN  IF task = NoTask
             THEN Returned(FALSE, (task_id :> ZeroPriority) @@ memo, ZeroPriority)
             ELSE Returned(FALSE, (task_id :> effective) @@ memo, effective)

RECURSIVE _calculate_recursive(_, _, _)
RECURSIVE downstream_priorities(_, _, _)

\* `stack` holds the ids whose call is in progress: a call for one of them
\* (not yet in memo) repeats the calls made since, until RecursionError
_calculate_recursive(task_id, memo, stack) ==
    IF task_id \in DOMAIN memo THEN Returned(FALSE, memo, memo[task_id])
    ELSE IF task_id \in stack THEN Returned(TRUE, memo, ZeroPriority)
    ELSE LET task == get_task(task_id)
         IN  IF task = NoTask
             THEN Returned(FALSE, (task_id :> ZeroPriority) @@ memo, ZeroPriority)
             ELSE LET intrinsic == priority(task)
                      blocked_tasks == get_blocked(task_id)
                  IN  IF blocked_tasks = <<>>
                      THEN Returned(FALSE, (task_id :> intrinsic) @@ memo, intrinsic)
                      ELSE LET down == downstream_priorities(blocked_tasks, memo,
                                                             stack \cup {task_id})
                               effective == max(intrinsic, down.value)
                           IN  IF down.raised THEN Returned(TRUE, down.memo, ZeroPriority)
                               ELSE Returned(FALSE, (task_id :> effective) @@ down.memo,
                                             effective)

\* [_calculate_recursive(blocked.task_id) for blocked in blocked_tasks]: the
\* calls one after the other on the memo the earlier ones left
downstream_priorities(blocked_tasks, memo, stack) ==
    IF blocked_tasks = <<>> THEN Returned(FALSE, memo, <<>>)
    ELSE LET first == _calculate_recursive(Head(blocked_tasks), memo, stack)
         IN  IF first.raised THEN Returned(TRUE, first.memo, <<>>)
             ELSE LET rest == downstream_priorities(Tail(blocked_tasks), first.memo, stack)
                  IN  Returned(rest.raised, rest.memo, <<first.value>> \o rest.value)

\* the loop going on to the next task, with the memo as it is, when the
\* recursion for one task fails
RECURSIVE for_task_in_tasks_skipping(_, _)
for_task_in_tasks_skipping(task_ids, memo) ==
    IF task_ids = <<>> THEN [result |-> OK, memo |-> memo]
    ELSE for_task_in_tasks_skipping(Tail(task_ids),
                                    _calculate_recursive(Head(task_ids), memo, {}).memo)

\* for task in tasks: if task.task_id not in memo: _calculate_recursive(...)
RECURSIVE for_task_in_tasks(_, _)
for_task_in_tasks(task_ids, memo) ==
    IF task_ids = <<>> THEN [result |-> OK, memo |-> memo]
    ELSE LET call == _calculate_recursive(Head(task_ids), memo, {})
         IN  IF call.raised THEN [result |-> RecursionError, memo |-> <<>>]
             ELSE for_task_in_tasks(Tail(task_ids), call.memo)

\* the batch failing as a whole when one of the tasks given is not in the store
calculate_effective_priorities_strict(task_ids) ==
    IF \E i \in 1 .. Len(task_ids) : get_task(task_ids[i]) = NoTask
    THEN [result |-> TaskNotFoundError, memo |-> <<>>]
    ELSE for_task_in_tasks(task_ids, <<>>)

\* calculate_effective_priorities(tasks), tasks given by their task_ids
calculate_effective_priorities(task_ids) == for_task_in_tasks(task_ids, <<>>)

task_id_of(rows) == [i \in 1 .. Len(rows) |-> rows[i].task_id]

\* calculate_effective_priorities(): tasks is None
calculate_effective_priorities_None ==
    calculate_effective_priorities(task_id_of(list_tasks_with_deps))

\* the status argument left out
None == "None"

\* the rows built with the task's own priority as effective_priority
list_tasks_with_priority_intrinsic(status) ==
    LET tasks_with_deps == IF status # None
                           THEN SelectSeq(list_tasks_with_deps, LAMBDA t : t.status = status)
                           ELSE list_tasks_with_deps
    IN  [result |-> OK,
         rows |-> [i \in 1 .. Len(tasks_with_deps) |->
             [task_id |-> tasks_with_deps[i].task_id,
              status |-> tasks_with_deps[i].status,
              priority |-> tasks_with_deps[i].priority,
              tasks_blocked_count |-> tasks_with_deps[i].tasks_blocked_count,
              active_blocker_count |-> tasks_with_deps[i].active_blocker_count,
              effective_priority |-> tasks_with_deps[i].priority]]]

list_tasks_with_priority(status) ==
    LET tasks_with_deps == IF status # None
                           THEN SelectSeq(list_tasks_with_deps, LAMBDA t : t.status = status)
                           ELSE list_tasks_with_deps
        priorities == calculate_effective_priorities(task_id_of(tasks_with_deps))
    IN  IF priorities.result # OK THEN [result |-> priorities.result, rows |-> <<>>]
        ELSE [result |-> OK,
              rows |-> [i \in 1 .. Len(tasks_with_deps) |->
                  [task_id |-> tasks_with_deps[i].task_id,
                   status |-> tasks_with_deps[i].status,
                   priority |-> tasks_with_deps[i].priority,
                   tasks_blocked_count |-> tasks_with_deps[i].tasks_blocked_count,
                   active_blocker_count |-> tasks_with_deps[i].active_blocker_count,
                   effective_priority |-> priorities.memo[tasks_with_deps[i].task_id]]]]

\* ------------------------------------------------------------ task storage

\* what the last call was, what it raised or returned, whether it ran
\* _cycle_check, and the tables it was made on
\* the callers of the concurrent runs, and where a caller stands: not in a
\* call, or in add_dependency after the closed-task test, after the cycle
\* check, or returned; `seen` is the rows of task_dependencies as they were
\* when the caller's cycle check ran
Callers == {"first", "second"}

Idle == [pc |-> "idle", task_id |-> 0, blocker_id |-> 0, result |-> OK, seen |-> <<>>]

Call(op, a, b, result, checked, ret) ==
    [op |-> op, a |-> a, b |-> b, result |-> result, cycle_checked |-> checked, ret |-> ret,
     tasks |-> tasks, deps |-> deps]

create_task(task_data) ==
    /\ next_id <= MaxTasks
    /\ tasks' = [tasks EXCEPT ![next_id] = Task(PENDING, task_data)]
    /\ next_id' = next_id + 1
    /\ last' = Call("create_task", next_id, 0, OK, FALSE, NoReturn)
    /\ UNCHANGED <<deps, callers>>

\* the update releasing the tasks a closed task blocks: the rows naming it as
\* blocker are deleted
update_task_releasing(task_id, status) ==
    IF get_task(task_id) = NoTask
    THEN /\ last' = Call("update_task", task_id, status, TaskNotFoundError, FALSE, NoReturn)
         /\ UNCHANGED <<tasks, deps, next_id, callers>>
    ELSE /\ tasks' = [tasks EXCEPT ![task_id].status = status]
         /\ deps' = IF status \in {COMPLETED, CANCELLED}
                    THEN SelectSeq(deps, LAMBDA d : d.blocker_id # task_id)
                    ELSE deps
         /\ last' = Call("update_task", task_id, status, OK, FALSE, NoReturn)
         /\ UNCHANGED <<next_id, callers>>

update_task(task_id, status) ==
    IF get_task(task_id) = NoTask
    THEN /\ last' = Call("update_task", task_id, status, TaskNotFoundError, FALSE, NoReturn)
         /\ UNCHANGED <<tasks, deps, next_id, callers>>
    ELSE /\ tasks' = [tasks EXCEPT ![task_id].status = status]
         /\ last' = Call("update_task", task_id, status, OK, FALSE, NoReturn)
         /\ UNCHANGED <<deps, next_id, callers>>

mark_completed(task_id) == update_task(task_id, COMPLETED)

mark_in_progress(task_id) == update_task(task_id, IN_PROGRESS)

mark_cancelled(task_id) == update_task(task_id, CANCELLED)

\* DELETE FROM tasks: the connection never turns PRAGMA foreign_keys on, so
\* SQLite does not act on the ON DELETE CASCADE clauses and the rows of
\* task_dependencies that name the task stay
delete_task(task_id) ==
    IF get_task(task_id) = NoTask
    THEN /\ last' = Call("delete_task", task_id, 0, TaskNotFoundError, FALSE, NoReturn)
         /\ UNCHANGED <<tasks, deps, next_id, callers>>
    ELSE /\ tasks' = [tasks EXCEPT ![task_id] = NoTask]
         /\ last' = Call("delete_task", task_id, 0, OK, FALSE, NoReturn)
         /\ UNCHANGED <<deps, next_id, callers>>

\* ------------------------------------------------------- dependency storage

\* the closed-task test looking at task_id only
ClosedOutcome_task_only(ids) ==
    LET first == get_task(ids[1])
    IN  IF first = NoTask THEN TaskNotFoundError
        ELSE IF first.status \in {CANCELLED, COMPLETED} THEN ClosedError
        ELSE OK

\* the closed-task test without the except clause: the AttributeError of
\* None.status escapes
ClosedOutcome_uncaught(ids) ==
    LET first == get_task(ids[1])
        second == get_task(ids[2])
    IN  IF first = NoTask THEN "AttributeError"
        ELSE IF first.status \in {CANCELLED, COMPLETED} THEN ClosedError
        ELSE IF second = NoTask THEN "AttributeError"
        ELSE IF second.status \in {CANCELLED, COMPLETED} THEN ClosedError
        ELSE OK

\* the closed-task test of add_dependency: any() over [task_id, blocker_id],
\* stopping at the first closed task, failing at the first missing one
ClosedOutcome(ids) ==
    LET first == get_task(ids[1])
        second == get_task(ids[2])
    IN  IF first = NoTask THEN TaskNotFoundError
        ELSE IF first.status \in {CANCELLED, COMPLETED} THEN ClosedError
        ELSE IF second = NoTask THEN TaskNotFoundError
        ELSE IF second.status \in {CANCELLED, COMPLETED} THEN ClosedError
        ELSE OK

add_dependency(task_id, blocker_id) ==
    LET closed == ClosedOutcome(<<task_id, blocker_id>>)
        dependency == TaskDependency(task_id, blocker_id)
    IN  IF closed # OK
        THEN /\ last' = Call("add_dependency", task_id, blocker_id, closed, FALSE, NoReturn)
             /\ UNCHANGED <<tasks, deps, next_id, callers>>
        ELSE IF _cycle_check(task_id, blocker_id)
        THEN /\ last' = Call("add_dependency", task_id, blocker_id, CycleError, TRUE, NoReturn)
             /\ UNCHANGED <<tasks, deps, next_id, callers>>
        ELSE IF ~ConstraintsAllow(dependency)
        THEN /\ last' = Call("add_dependency", task_id, blocker_id, IntegrityError, TRUE, NoReturn)
             /\ UNCHANGED <<tasks, deps, next_id, callers>>
        ELSE /\ deps' = Append(deps, dependency)
             /\ last' = Call("add_dependency", task_id, blocker_id, OK, TRUE, dependency)
             /\ UNCHANGED <<tasks, next_id, callers>>

\* the removal without the rowcount test
remove_dependency_silent(task_id, blocker_id) ==
    /\ deps' = DELETE_DEPENDENCY(task_id, blocker_id)
    /\ last' = Call("remove_dependency", task_id, blocker_id, OK, FALSE, NoReturn)
    /\ UNCHANGED <<tasks, next_id, callers>>

remove_dependency(task_id, blocker_id) ==
    LET kept == DELETE_DEPENDENCY(task_id, blocker_id)
    IN  IF Len(kept) = Len(deps)
        THEN /\ last' = Call("remove_dependency", task_id, blocker_id, NotFoundError, FALSE, NoReturn)
             /\ UNCHANGED <<tasks, deps, next_id, callers>>
        ELSE /\ deps' = kept
             /\ last' = Call("remove_dependency", task_id, blocker_id, OK, FALSE, NoReturn)
             /\ UNCHANGED <<tasks, next_id, callers>>

\* ----------------------------------------------------------- specification

Init ==
    /\ tasks = [id \in TaskIds |-> NoTask]
    /\ deps = <<>>
    /\ next_id = 1
    /\ last = [op |-> "init", a |-> 0, b |-> 0, result |-> OK, cycle_checked |-> FALSE,
               ret |-> NoReturn, tasks |-> [id \in TaskIds |-> NoTask], deps |-> <<>>]
    /\ callers = [caller \in Callers |-> Idle]

Next ==
    \/ \E task_data \in {TaskCreate(next_id)} : create_task(task_data)
    \/ \E task_id \in TaskIds, status \in {PENDING} : update_task(task_id, status)
    \/ \E task_id \in TaskIds : mark_completed(task_id)
    \/ \E task_id \in TaskIds : mark_in_progress(task_id)
    \/ \E task_id \in TaskIds : mark_cancelled(task_id)
    \/ \E task_id \in TaskIds : delete_task(task_id)
    \/ \E task_id \in TaskIds, blocker_id \in TaskIds : add_dependency(task_id, blocker_id)
    \/ \E task_id \in TaskIds, blocker_id \in TaskIds : remove_dependency(task_id, blocker_id)

Spec == Init /\ [][Next]_vars

\* ---------------------------------------------- the diamond of four tasks

\* the four tasks A, B, C, D of test_cycle_check_complex_graph, created in
\* that order
DiamondIds == 1 .. 4

\* A blocked-by B, A blocked-by C, B blocked-by D, C blocked-by D
DiamondEdges ==
    {TaskDependency(1, 2), TaskDependency(1, 3), TaskDependency(2, 4), TaskDependency(3, 4)}

\* the store after the four create_task calls
DiamondInit ==
    /\ tasks = [id \in DiamondIds |-> Task(PENDING, TaskCreate(id))]
    /\ deps = <<>>
    /\ next_id = Cardinality(DiamondIds) + 1
    /\ last = [op |-> "init", a |-> 0, b |-> 0, result |-> OK, cycle_checked |-> FALSE,
               ret |-> NoReturn,
               tasks |-> [id \in DiamondIds |-> Task(PENDING, TaskCreate(id))],
               deps |-> <<>>]
    /\ callers = [caller \in Callers |-> Idle]

\* the edges of the diamond added, and removed again, in any order, while the
\* four tasks move between pending and in_progress
DiamondNext ==
    \/ \E td \in DiamondEdges : add_dependency(td.task_id, td.blocker_id)
    \/ \E td \in DiamondEdges : remove_dependency(td.task_id, td.blocker_id)
    \/ \E task_id \in DiamondIds : mark_in_progress(task_id)
    \/ \E task_id \in DiamondIds, status \in {PENDING} : update_task(task_id, status)

DiamondSpec == DiamondInit /\ [][DiamondNext]_vars

\* ------------------------------------- two callers inside add_dependency

\* add_dependency up to the closed-task test: the caller goes on to the cycle
\* check, or returns with the error of the test
add_dependency_closed_test(caller, task_id, blocker_id) ==
    LET closed == ClosedOutcome(<<task_id, blocker_id>>)
    IN  /\ callers[caller].pc = "idle"
        /\ callers' = [callers EXCEPT ![caller] =
                [pc |-> IF closed = OK THEN "closed_tested" ELSE "returned",
                 task_id |-> task_id, blocker_id |-> blocker_id,
                 result |-> closed, seen |-> <<>>]]
        /\ UNCHANGED <<tasks, deps, next_id, last>>

\* if self._cycle_check(task_id, blocker_id): raise DependencyError(...)
add_dependency_cycle_check(caller) ==
    LET call == callers[caller]
    IN  /\ call.pc = "closed_tested"
        /\ callers' = [callers EXCEPT ![caller] =
                IF _cycle_check(call.task_id, call.blocker_id)
                THEN [call EXCEPT !.pc = "returned", !.result = CycleError, !.seen = deps]
                ELSE [call EXCEPT !.pc = "cycle_checked", !.seen = deps]]
        /\ UNCHANGED <<tasks, deps, next_id, last>>

\* the INSERT running the cycle check again, in one step with the insert
add_dependency_insert_rechecking(caller) ==
    LET call == callers[caller]
        dependency == TaskDependency(call.task_id, call.blocker_id)
    IN  /\ call.pc = "cycle_checked"
        /\ IF _cycle_check(call.task_id, call.blocker_id)
           THEN /\ callers' = [callers EXCEPT ![caller].pc = "returned",
                                              ![caller].result = CycleError]
                /\ UNCHANGED deps
           ELSE IF ~ConstraintsAllow(dependency)
           THEN /\ callers' = [callers EXCEPT ![caller].pc = "returned",
                                              ![caller].result = IntegrityError]
                /\ UNCHANGED deps
           ELSE /\ deps' = Append(deps, dependency)
                /\ callers' = [callers EXCEPT ![caller].pc = "returned"]
        /\ UNCHANGED <<tasks, next_id, last>>

\* conn.execute(INSERT_DEPENDENCY, ...); conn.commit(); return dependency
add_dependency_insert(caller) ==
    LET call == callers[caller]
        dependency == TaskDependency(call.task_id, call.blocker_id)
    IN  /\ call.pc = "cycle_checked"
        /\ IF ~ConstraintsAllow(dependency)
           THEN /\ callers' = [callers EXCEPT ![caller].pc = "returned",
                                              ![caller].result = IntegrityError]
                /\ UNCHANGED deps
           ELSE /\ deps' = Append(deps, dependency)
                /\ callers' = [callers EXCEPT ![caller].pc = "returned"]
        /\ UNCHANGED <<tasks, next_id, last>>

\* a store of pending tasks without edges, and no caller in a call
ConcurrentInit ==
    /\ tasks = [id \in TaskIds |-> Task(PENDING, TaskCreate(id))]
    /\ deps = <<>>
    /\ next_id = MaxTasks + 1
    /\ last = [op |-> "init", a |-> 0, b |-> 0, result |-> OK, cycle_checked |-> FALSE,
               ret |-> NoReturn,
               tasks |-> [id \in TaskIds |-> Task(PENDING, TaskCreate(id))],
               deps |-> <<>>]
    /\ callers = [caller \in Callers |-> Idle]

\* each caller makes one add_dependency call; the steps of the two calls
\* interleave in any order
ConcurrentNext ==
    \/ \E caller \in Callers, task_id \in TaskIds, blocker_id \in TaskIds :
            add_dependency_closed_test(caller, task_id, blocker_id)
    \/ \E caller \in Callers : add_dependency_cycle_check(caller)
    \/ \E caller \in Callers : add_dependency_insert(caller)

ConcurrentSpec == ConcurrentInit /\ [][ConcurrentNext]_vars

\* --------------------------------------------- no closed task reopened

\* the calls of Next, but update_task never called to move a completed or
\* cancelled task back to pending or in_progress
NoReopenNext ==
    \/ \E task_data \in {TaskCreate(next_id)} : create_task(task_data)
    \/ \E task_id \in TaskIds, status \in {PENDING} :
            /\ get_task(task_id).status \notin {COMPLETED, CANCELLED}
            /\ update_task(task_id, status)
    \/ \E task_id \in TaskIds : mark_completed(task_id)
    \/ \E task_id \in TaskIds :
            /\ get_task(task_id).status \notin {COMPLETED, CANCELLED}
            /\ mark_in_progress(task_id)
    \/ \E task_id \in TaskIds : mark_cancelled(task_id)
    \/ \E task_id \in TaskIds : delete_task(task_id)
    \/ \E task_id \in TaskIds, blocker_id \in TaskIds : add_dependency(task_id, blocker_id)
    \/ \E task_id \in TaskIds, blocker_id \in TaskIds : remove_dependency(task_id, blocker_id)

NoReopenSpec == Init /\ [][NoReopenNext]_vars

\* ------------------------------------------------------ the queries called

\* a query called: it returns `returned` and writes to no table
Query(op, a, b, result, returned) ==
    /\ last' = Call(op, a, b, result, FALSE, returned)
    /\ UNCHANGED <<tasks, deps, next_id, callers>>

call_get_blockers(task_id) ==
    Query("get_blockers", task_id, 0, OK, get_blockers(task_id))

call_get_blocked(blocker_id) ==
    Query("get_blocked", blocker_id, 0, OK, get_blocked(blocker_id))

call__cycle_check(task_id, blocker_id) ==
    Query("_cycle_check", task_id, blocker_id, OK, _cycle_check(task_id, blocker_id))

\* the call writing the priorities it computed to the tasks table
call_calculate_effective_priorities_persisting(task_ids) ==
    LET priorities == calculate_effective_priorities(task_ids)
    IN  /\ last' = Call("calculate_effective_priorities", task_ids, 0,
                        priorities.result, FALSE, priorities.memo)
        /\ tasks' = [id \in DOMAIN tasks |->
                        IF id \in DOMAIN priorities.memo /\ tasks[id] # NoTask
                        THEN [tasks[id] EXCEPT !.llm_value = priorities.memo[id].num,
                                               !.duration_min = priorities.memo[id].den]
                        ELSE tasks[id]]
        /\ UNCHANGED <<deps, next_id, callers>>

\* calculate_effective_priorities(tasks): memo is a local dict, returned
call_calculate_effective_priorities(task_ids) ==
    LET priorities == calculate_effective_priorities(task_ids)
    IN  Query("calculate_effective_priorities", task_ids, 0,
              priorities.result, priorities.memo)

\* calculate_effective_priorities(): tasks is None
call_calculate_effective_priorities_None ==
    Query("calculate_effective_priorities_None", 0, 0,
          calculate_effective_priorities_None.result,
          calculate_effective_priorities_None.memo)

call_list_tasks_with_priority(status) ==
    Query("list_tasks_with_priority", status, 0,
          list_tasks_with_priority(status).result, list_tasks_with_priority(status).rows)

\* the task lists given to calculate_effective_priorities: every id, newest
\* first, and each single id
QueryTaskLists == {ORDER_BY_created_at_DESC(TaskIds)} \cup {<<id>> : id \in TaskIds}

\* the store filled by create_task, mark_completed, delete_task and
\* add_dependency, and queried in between
QueryNext ==
    \/ \E task_data \in {TaskCreate(next_id)} : create_task(task_data)
    \/ \E task_id \in TaskIds : mark_completed(task_id)
    \/ \E task_id \in TaskIds : delete_task(task_id)
    \/ \E task_id \in TaskIds, blocker_id \in TaskIds : add_dependency(task_id, blocker_id)
    \/ \E task_id \in TaskIds : call_get_blockers(task_id)
    \/ \E blocker_id \in TaskIds : call_get_blocked(blocker_id)
    \/ \E task_id \in TaskIds, blocker_id \in TaskIds : call__cycle_check(task_id, blocker_id)
    \/ \E task_ids \in QueryTaskLists : call_calculate_effective_priorities(task_ids)
    \/ call_calculate_effective_priorities_None
    \/ \E status \in TaskStatus \cup {None} : call_list_tasks_with_priority(status)

QuerySpec == Init /\ [][QueryNext]_vars

\* ------------------------------------------------------ notions of the claims

Edge(t, b) == [task_id |-> t, blocker_id |-> b]

\* the stored edges now, and when the last call was made
Edges == Range(deps)

EdgesBefore == Range(last.deps)

Active(id) == tasks[id].status \in {PENDING, IN_PROGRESS}

Closed(id) == tasks[id].status \in {COMPLETED, CANCELLED}

Exists(id) == tasks[id] # NoTask

ActiveBefore(id) == last.tasks[id].status \in {PENDING, IN_PROGRESS}

ClosedBefore(id) == last.tasks[id].status \in {COMPLETED, CANCELLED}

ExistsBefore(id) == last.tasks[id] # NoTask

\* no task was ever deleted: every identifier handed out still has its row
NothingDeleted == \A id \in TaskIds : id < next_id => Exists(id)

BlockersIn(S, E) == {e.blocker_id : e \in {x \in E : x.task_id \in S}}

RECURSIVE ReachSet(_, _, _)
ReachSet(frontier, seen, E) ==
    LET new == BlockersIn(frontier, E) \ seen
    IN  IF new = {} THEN seen ELSE ReachSet(new, seen \cup new, E)

\* the tasks that (transitively) block n over the rows E
TransitiveBlockers(n, E) == ReachSet({n}, {}, E)

Acyclic(E) == \A n \in TaskIds : n \notin TransitiveBlockers(n, E)

\* add_dependency_tool: DependencyError and TaskNotFoundError become
\* ModelRetry, anything else propagates
add_dependency_tool(result) ==
    IF result \in {ClosedError, CycleError, NotFoundError, TaskNotFoundError}
    THEN "ModelRetry" ELSE result

\* --------------------------------------------------------------------- C1

\* C1: in every state reached by create_task, status updates, add_dependency
\* and remove_dependency (no task deleted), the rows of task_dependencies,
\* whatever the status of their tasks, contain no directed cycle.
C1_StoredEdgesAcyclic == NothingDeleted => Acyclic(Edges)

\* --------------------------------------------------------------------- C2

\* C2: if the edge (A blocked-by B) is stored and A and B are both active,
\* add_dependency(B, A) fails with the cycle error and the edge set is
\* unchanged.
C2_ReverseEdgeIsCycle ==
    last.op = "add_dependency" =>
        LET B == last.a
            A == last.b
        IN  (Edge(A, B) \in EdgesBefore /\ ActiveBefore(A) /\ ActiveBefore(B))
                => (last.result = CycleError /\ deps = last.deps)

C2_Witness ==
    /\ last.op = "add_dependency" /\ last.result = CycleError
    /\ last.a # last.b
    /\ Edge(last.b, last.a) \in EdgesBefore
    /\ ActiveBefore(last.a) /\ ActiveBefore(last.b)

\* --------------------------------------------------------------------- C3

\* C3: for every existing active task A and any stored edge set,
\* add_dependency(A, A) fails with the cycle error; and no reachable state
\* holds an edge whose task_id equals its blocker_id.
C3_SelfDependencyIsCycle ==
    /\ \A e \in Edges : e.task_id # e.blocker_id
    /\ (last.op = "add_dependency" /\ last.a = last.b /\ ActiveBefore(last.a))
            => (last.result = CycleError /\ deps = last.deps)

C3_Witness ==
    /\ last.op = "add_dependency" /\ last.result = CycleError
    /\ last.a = last.b
    /\ ActiveBefore(last.a)
    /\ EdgesBefore # {}

\* --------------------------------------------------------------------- C4

\* C4: add_dependency(t, b) when the edge (t, b) is already stored fails with a
\* DependencyError, which add_dependency_tool turns into ModelRetry, and the
\* edge set still holds exactly one (t, b) edge.
C4_DuplicateIsDependencyError ==
    last.op = "add_dependency" =>
        LET t == last.a
            b == last.b
        IN  Edge(t, b) \in EdgesBefore
                => /\ last.result \in {ClosedError, CycleError, NotFoundError}
                   /\ add_dependency_tool(last.result) = "ModelRetry"
                   /\ Len(SelectSeq(deps, LAMBDA td : td = Edge(t, b))) = 1

\* --------------------------------------------------------------------- C5

\* C5: add_dependency(t, b) where both tasks exist and t or b is completed or
\* cancelled raises the closed-task error before any cycle check runs and
\* without persisting an edge, also when the edge would close a cycle.
C5_ClosedBeforeCycleCheck ==
    last.op = "add_dependency" =>
        LET t == last.a
            b == last.b
        IN  (ExistsBefore(t) /\ ExistsBefore(b) /\ (ClosedBefore(t) \/ ClosedBefore(b)))
                => /\ last.result = ClosedError
                   /\ ~last.cycle_checked
                   /\ deps = last.deps

\* the closed-task error on an edge whose reverse is stored: the request
\* would have closed a cycle
C5_Witness ==
    /\ last.op = "add_dependency" /\ last.result = ClosedError
    /\ ExistsBefore(last.a) /\ ExistsBefore(last.b)
    /\ ClosedBefore(last.b)
    /\ Edge(last.b, last.a) \in EdgesBefore

\* --------------------------------------------------------------------- C6

\* C6 as stated: add_dependency(t, b) where t or b is not in the task store
\* fails with TaskNotFoundError and persists no edge, whichever id is missing
\* and whatever the status of the other endpoint.
C6_MissingTaskAlwaysNotFound ==
    last.op = "add_dependency" =>
        LET t == last.a
            b == last.b
        IN  (~ExistsBefore(t) \/ ~ExistsBefore(b))
                => (last.result = TaskNotFoundError /\ deps = last.deps)

\* C6 as amended: add_dependency(t, b) where t or b is not in the task store
\* persists no edge and fails with TaskNotFoundError, except when t exists and
\* is completed or cancelled (so b is the missing one): then it fails with
\* the closed-task error.
C6_MissingTaskNotFoundUnlessTaskClosed ==
    last.op = "add_dependency" =>
        LET t == last.a
            b == last.b
        IN  (~ExistsBefore(t) \/ ~ExistsBefore(b))
                => /\ deps = last.deps
                   /\ last.result = IF ExistsBefore(t) /\ ClosedBefore(t)
                                    THEN ClosedError ELSE TaskNotFoundError

\* the missing id is task_id and the other endpoint is closed
C6_Witness ==
    /\ last.op = "add_dependency" /\ last.result = TaskNotFoundError
    /\ ~ExistsBefore(last.a)
    /\ ExistsBefore(last.b) /\ ClosedBefore(last.b)

\* --------------------------------------------------------------------- C7

\* C7: remove_dependency(t, b) when no edge (t, b) is stored fails with
\* 'Dependency not found' and leaves the edge set and all tasks unchanged.
C7_RemoveMissingFails ==
    last.op = "remove_dependency" =>
        LET t == last.a
            b == last.b
        IN  Edge(t, b) \notin EdgesBefore
                => (last.result = NotFoundError /\ deps = last.deps /\ tasks = last.tasks)

\* the failed removal happens while the reverse edge is stored
C7_Witness ==
    /\ last.op = "remove_dependency" /\ last.result = NotFoundError
    /\ Edge(last.a, last.b) \notin EdgesBefore
    /\ Edge(last.b, last.a) \in EdgesBefore

\* --------------------------------------------------------------------- C8

\* C8: after remove_dependency(t, b) succeeds on a stored edge, b is not in
\* get_blockers(t), t is not in get_blocked(b), every other stored edge is
\* still present (in its order), and if (t, b) was t's only edge
\* get_blockers(t) is empty.
C8_RemoveRemovesExactlyTheEdge ==
    (last.op = "remove_dependency" /\ last.result = OK) =>
        LET t == last.a
            b == last.b
        IN  /\ Edge(t, b) \in EdgesBefore
            /\ b \notin Range(get_blockers(t))
            /\ t \notin Range(get_blocked(b))
            /\ deps = SelectSeq(last.deps, LAMBDA td : td # Edge(t, b))
            /\ Edges = EdgesBefore \ {Edge(t, b)}
            /\ ({e \in EdgesBefore : e.task_id = t} = {Edge(t, b)} => get_blockers(t) = <<>>)

\* a removal that leaves an active blocker of the same task behind
C8_Witness ==
    /\ last.op = "remove_dependency" /\ last.result = OK
    /\ Edge(last.a, last.b) \in EdgesBefore
    /\ \E e \in Edges : e.task_id = last.a /\ Active(e.blocker_id)

\* --------------------------------------------------------------------- C9

\* C9: after add_dependency(t, b) succeeds, both tasks were active, the
\* returned TaskDependency has task_id = t and blocker_id = b,
\* get_blockers(t) contains b, get_blocked(b) contains t, and the edge set is
\* the previous edge set plus exactly the edge (t, b).
C9_AddAddsExactlyTheEdge ==
    (last.op = "add_dependency" /\ last.result = OK) =>
        LET t == last.a
            b == last.b
        IN  /\ ActiveBefore(t) /\ ActiveBefore(b)
            /\ last.ret.task_id = t /\ last.ret.blocker_id = b
            /\ b \in Range(get_blockers(t))
            /\ t \in Range(get_blocked(b))
            /\ Edge(t, b) \notin EdgesBefore
            /\ deps = Append(last.deps, Edge(t, b))

\* a successful add onto a non-empty edge set
C9_Witness ==
    /\ last.op = "add_dependency" /\ last.result = OK
    /\ Len(last.deps) >= 1
    /\ deps[Len(deps)] = Edge(last.a, last.b)

\* -------------------------------------------------------------------- C10

\* C10: in every reachable state get_blockers(t) returns exactly the tasks b
\* with a stored edge (t blocked-by b) whose status is pending or
\* in_progress, each once; and a blocker that becomes completed or cancelled
\* stops being returned while its edge stays stored.
C10_BlockersAreActiveBlockers ==
    /\ \A t \in TaskIds :
            /\ Range(get_blockers(t)) = {b \in TaskIds : Edge(t, b) \in Edges /\ Active(b)}
            /\ Len(get_blockers(t)) = Cardinality(Range(get_blockers(t)))
    /\ (last.op = "update_task" /\ last.result = OK /\ last.b \in {COMPLETED, CANCELLED}) =>
            LET b == last.a
            IN  \A t \in TaskIds :
                    (Edge(t, b) \in EdgesBefore /\ ActiveBefore(b))
                        => (b \notin Range(get_blockers(t)) /\ Edge(t, b) \in Edges)

\* a blocker was just closed: its edge is stored, it is not returned, and
\* another blocker of the same task still is
C10_Witness ==
    /\ last.op = "update_task" /\ last.result = OK
    /\ Closed(last.a) /\ ActiveBefore(last.a)
    /\ \E t \in TaskIds :
        /\ Edge(t, last.a) \in Edges
        /\ last.a \notin Range(get_blockers(t))
        /\ get_blockers(t) # <<>>

\* -------------------------------------------------------------------- C11

\* C11: in every reachable state get_blocked(b) returns exactly the tasks t of
\* the task store with a stored edge (t blocked-by b), each once, whatever the
\* status of b or of t; and after B is marked completed, get_blockers(A) no
\* longer contains B while get_blocked(B) still contains A, for every task A
\* that B blocks.
C11_BlockedAreAllBlocked ==
    /\ \A b \in TaskIds :
            /\ Range(get_blocked(b)) = {t \in TaskIds : Exists(t) /\ Edge(t, b) \in Edges}
            /\ Len(get_blocked(b)) = Cardinality(Range(get_blocked(b)))
    /\ (last.op = "update_task" /\ last.result = OK /\ last.b = COMPLETED) =>
            LET B == last.a
            IN  \A A \in TaskIds :
                    (Edge(A, B) \in EdgesBefore /\ Exists(A))
                        => (B \notin Range(get_blockers(A)) /\ A \in Range(get_blocked(B)))

\* B was just marked completed while it blocks a task A that is itself closed
\* and a task that is still active
C11_Witness ==
    /\ last.op = "update_task" /\ last.result = OK /\ last.b = COMPLETED
    /\ ActiveBefore(last.a)
    /\ \E A \in TaskIds :
        /\ Edge(A, last.a) \in Edges /\ Closed(A)
        /\ A \in Range(get_blocked(last.a))
    /\ \E A \in TaskIds :
        /\ Edge(A, last.a) \in Edges /\ Active(A)
        /\ last.a \notin Range(get_blockers(A))

\* ------------------------------------------- notions of the priority claims

\* llm_value / duration_min of a task of the store
Intrinsic(t) == [num |-> tasks[t].llm_value, den |-> tasks[t].duration_min]

\* every identifier, newest first: a task list naming all tasks, and the
\* identifiers that resolve to no task
EveryId == ORDER_BY_created_at_DESC(TaskIds)

\* the calls of calculate_effective_priorities looked at: without a task
\* list, and with the list of every identifier
PriorityCalls == {calculate_effective_priorities_None, calculate_effective_priorities(EveryId)}

\* the tasks of the store that t directly blocks
BlockedBy(t) == {x \in TaskIds : Exists(x) /\ Edge(x, t) \in Edges}

\* t blocks nothing: no stored edge names it as blocker
BlocksNothing(t) == \A e \in Edges : e.blocker_id # t

\* -------------------------------------------------------------------- C12

\* C12: for every task t in the result of calculate_effective_priorities that
\* no stored edge names as blocker, the effective priority of t equals its
\* intrinsic priority llm_value / duration_min.
C12_LeafKeepsIntrinsic ==
    \A call \in PriorityCalls :
        call.result = OK =>
            \A t \in DOMAIN call.memo :
                (Exists(t) /\ BlocksNothing(t)) => SamePriority(call.memo[t], Intrinsic(t))

\* a task that blocks nothing and is itself blocked by a task that inherits
\* its priority
C12_Witness ==
    /\ calculate_effective_priorities_None.result = OK
    /\ \E t \in DOMAIN calculate_effective_priorities_None.memo :
        /\ Exists(t) /\ BlocksNothing(t)
        /\ SamePriority(calculate_effective_priorities_None.memo[t], Intrinsic(t))
        /\ \E b \in DOMAIN calculate_effective_priorities_None.memo :
            /\ Edge(t, b) \in Edges /\ Exists(b)
            /\ Greater(calculate_effective_priorities_None.memo[b], Intrinsic(b))

\* -------------------------------------------------------------------- C13

\* C13: when the stored edge set is acyclic, the map returned by
\* calculate_effective_priorities has, for every stored edge (task blocked-by
\* blocker) whose blocker is a task in the map, an entry for the task with
\* effective(blocker) >= effective(task); and effective(x) >= intrinsic(x) for
\* every task x in the map.
C13_BlockerAtLeastBlocked ==
    Acyclic(Edges) =>
        \A call \in PriorityCalls :
            /\ call.result = OK
            /\ \A e \in Edges :
                    (e.blocker_id \in DOMAIN call.memo /\ Exists(e.blocker_id) /\ Exists(e.task_id))
                        => /\ e.task_id \in DOMAIN call.memo
                           /\ AtLeast(call.memo[e.blocker_id], call.memo[e.task_id])
            /\ \A x \in DOMAIN call.memo :
                    Exists(x) => AtLeast(call.memo[x], Intrinsic(x))

\* an edge whose blocker has a higher effective priority than the task it
\* blocks, and another whose blocker inherits the priority of the task
C13_Witness ==
    /\ Acyclic(Edges)
    /\ calculate_effective_priorities_None.result = OK
    /\ \E e \in Edges :
        /\ {e.task_id, e.blocker_id} \subseteq DOMAIN calculate_effective_priorities_None.memo
        /\ Greater(calculate_effective_priorities_None.memo[e.blocker_id],
                   calculate_effective_priorities_None.memo[e.task_id])
    /\ \E e \in Edges :
        /\ {e.task_id, e.blocker_id} \subseteq DOMAIN calculate_effective_priorities_None.memo
        /\ Greater(Intrinsic(e.task_id), Intrinsic(e.blocker_id))
        /\ SamePriority(calculate_effective_priorities_None.memo[e.blocker_id],
                        calculate_effective_priorities_None.memo[e.task_id])

\* -------------------------------------------------------------------- C14

\* p is the greatest of the priorities in S
GreatestOf(p, S) == (\A v \in S : AtLeast(p, v)) /\ (\E v \in S : SamePriority(p, v))

RECURSIVE BlockedFrom(_, _)
BlockedFrom(frontier, seen) ==
    LET new == UNION {BlockedBy(x) : x \in frontier} \ seen
    IN  IF new = {} THEN seen ELSE BlockedFrom(new, seen \cup new)

\* the tasks of the store transitively blocked by t
TransitivelyBlockedBy(t) == BlockedFrom({t}, {})

\* C14: when the stored edge set is acyclic, calculate_effective_priorities
\* gives each task t of its map the value max(intrinsic(t), effective(t') for
\* every task t' directly blocked by t), and that value is the greatest
\* intrinsic priority over t and all tasks transitively blocked by t.
C14_EffectiveIsMaxOverDownstream ==
    Acyclic(Edges) =>
        \A call \in PriorityCalls :
            /\ call.result = OK
            /\ \A t \in DOMAIN call.memo :
                Exists(t) =>
                    /\ BlockedBy(t) \subseteq DOMAIN call.memo
                    /\ GreatestOf(call.memo[t],
                                  {Intrinsic(t)} \cup {call.memo[x] : x \in BlockedBy(t)})
                    /\ GreatestOf(call.memo[t],
                                  {Intrinsic(x) : x \in {t} \cup TransitivelyBlockedBy(t)})

\* a chain of three: a task whose effective priority is above its own and
\* above the intrinsic priority of everything it blocks directly
C14_Witness ==
    /\ Acyclic(Edges)
    /\ calculate_effective_priorities_None.result = OK
    /\ \E t \in DOMAIN calculate_effective_priorities_None.memo :
        \A x \in {t} \cup BlockedBy(t) :
            Greater(calculate_effective_priorities_None.memo[t], Intrinsic(x))

\* -------------------------------------------------------------------- C15

\* C15: with four active tasks, building the diamond A blocked-by B, A
\* blocked-by C, B blocked-by D, C blocked-by D in any order of the four
\* add_dependency calls raises the cycle error on no call, every call for an
\* edge not yet stored succeeds, and once the four edges are stored
\* effective(D) = max(intrinsic(D), effective(B), effective(C)).
C15_DiamondHasNoCycleError ==
    /\ last.op = "add_dependency" =>
            /\ last.result # CycleError
            /\ Edge(last.a, last.b) \notin EdgesBefore
                    => (last.result = OK /\ deps = Append(last.deps, Edge(last.a, last.b)))
    /\ Edges = DiamondEdges =>
            LET call == calculate_effective_priorities_None
            IN  /\ call.result = OK
                /\ DOMAIN call.memo = DiamondIds
                /\ GreatestOf(call.memo[4], {Intrinsic(4), call.memo[2], call.memo[3]})

\* the fourth edge was just added, whichever it is, and D inherits a priority
\* above its own through both B and C
C15_Witness ==
    /\ last.op = "add_dependency" /\ last.result = OK
    /\ Edges = DiamondEdges
    /\ deps[Len(deps)] = Edge(3, 4)
    /\ deps[1] = Edge(1, 2)
    /\ Greater(calculate_effective_priorities_None.memo[4], Intrinsic(4))
    /\ SamePriority(calculate_effective_priorities_None.memo[2],
                    calculate_effective_priorities_None.memo[3])

\* -------------------------------------------------------------------- C16

\* C16: calculate_effective_priorities() called without a task list returns a
\* map that has an entry for every task in the task store, whatever the
\* task's status.
C16_EveryTaskHasAnEntry ==
    calculate_effective_priorities_None.result = OK =>
        \A t \in TaskIds : Exists(t) => t \in DOMAIN calculate_effective_priorities_None.memo

\* -------------------------------------------------------------------- C17

\* C17: after delete_task(x) succeeds no stored edge has x as task_id or as
\* blocker_id, and in every reachable state both endpoints of every stored
\* edge are tasks of the store.
C17_DeleteCascades ==
    /\ (last.op = "delete_task" /\ last.result = OK) =>
            \A e \in Edges : e.task_id # last.a /\ e.blocker_id # last.a
    /\ \A e \in Edges : Exists(e.task_id) /\ Exists(e.blocker_id)

\* -------------------------------------------------------------------- C18

\* C18: in every reachable state list_tasks_with_deps returns exactly the
\* tasks whose status is pending or in_progress, each once, and for each
\* returned task t active_blocker_count is the number of tasks get_blockers(t)
\* returns and tasks_blocked_count is the number of tasks get_blocked(t)
\* returns.
C18_CountsMatchTheQueries ==
    /\ {list_tasks_with_deps[i].task_id : i \in 1 .. Len(list_tasks_with_deps)}
            = {t \in TaskIds : Active(t)}
    /\ Len(list_tasks_with_deps) = Cardinality({t \in TaskIds : Active(t)})
    /\ \A i \in 1 .. Len(list_tasks_with_deps) :
            LET row == list_tasks_with_deps[i]
            IN  /\ row.active_blocker_count = Len(get_blockers(row.task_id))
                /\ row.tasks_blocked_count = Len(get_blocked(row.task_id))

\* -------------------------------------------------------------------- C19

\* the rows of list_tasks_with_deps a status filter keeps
RowsWithStatus(status) ==
    IF status = None THEN list_tasks_with_deps
    ELSE SelectSeq(list_tasks_with_deps, LAMBDA row : row.status = status)

\* C19: whenever calculate_effective_priorities() returns a map,
\* list_tasks_with_priority(status) returns exactly the rows of
\* list_tasks_with_deps whose status equals the filter (all rows without a
\* filter), in their order, each with its dependency counts and with
\* effective_priority equal to the value calculate_effective_priorities()
\* gives that task over the full graph; so a filter removes rows and never
\* changes the effective priority of a remaining task.
C19_ListJoinsCountsAndPriorities ==
    calculate_effective_priorities_None.result = OK =>
        \A status \in TaskStatus \cup {None} :
            LET listed == list_tasks_with_priority(status)
                rows == RowsWithStatus(status)
            IN  /\ listed.result = OK
                /\ Len(listed.rows) = Len(rows)
                /\ \A i \in 1 .. Len(rows) :
                    /\ listed.rows[i].task_id = rows[i].task_id
                    /\ listed.rows[i].status = rows[i].status
                    /\ listed.rows[i].tasks_blocked_count = rows[i].tasks_blocked_count
                    /\ listed.rows[i].active_blocker_count = rows[i].active_blocker_count
                    /\ SamePriority(listed.rows[i].effective_priority,
                                    calculate_effective_priorities_None.memo[rows[i].task_id])

\* the filter 'pending' removes a row, and a row it keeps reports a priority
\* inherited from a task that is not listed
C19_Witness ==
    /\ calculate_effective_priorities_None.result = OK
    /\ Len(list_tasks_with_priority(PENDING).rows) < Len(list_tasks_with_priority(None).rows)
    /\ \E i \in 1 .. Len(list_tasks_with_priority(PENDING).rows) :
        LET row == list_tasks_with_priority(PENDING).rows[i]
        IN  /\ Greater(row.effective_priority, row.priority)
            /\ \A x \in BlockedBy(row.task_id) : tasks[x].status # PENDING

\* -------------------------------------------------------------------- C20

\* the task lists calculate_effective_priorities is given: any of the
\* identifiers, newest first
TaskLists == {ORDER_BY_created_at_DESC(S) : S \in SUBSET TaskIds}

\* the list without the identifiers that resolve to no task
Resolvable(task_ids) == SelectSeq(task_ids, LAMBDA id : Exists(id))

\* C20: calculate_effective_priorities never raises because an id of its task
\* list cannot be resolved by the task store: it ends as it does on the list
\* without that id, the id gets effective priority 0 in the result, and the
\* other entries are those of the result on the list without it.
C20_UnresolvableIdIsPriorityZero ==
    \A task_ids \in TaskLists :
        LET with == calculate_effective_priorities(task_ids)
            without == calculate_effective_priorities(Resolvable(task_ids))
            unresolvable == {id \in Range(task_ids) : ~Exists(id)}
        IN  /\ with.result = without.result
            /\ with.result = OK =>
                /\ DOMAIN with.memo = DOMAIN without.memo \cup unresolvable
                /\ \A id \in unresolvable : with.memo[id] = ZeroPriority
                /\ \A t \in DOMAIN without.memo : with.memo[t] = without.memo[t]

\* a deleted task that a stored row still names as the blocked task of a task
\* in the list, next to a task that inherits a priority
C20_Witness ==
    /\ calculate_effective_priorities(EveryId).result = OK
    /\ \E id \in TaskIds :
        /\ id < next_id /\ ~Exists(id)
        /\ calculate_effective_priorities(EveryId).memo[id] = ZeroPriority
        /\ \E e \in Edges : e.task_id = id /\ Exists(e.blocker_id)
    /\ \E t \in TaskIds :
        /\ Exists(t)
        /\ Greater(calculate_effective_priorities(EveryId).memo[t], Intrinsic(t))

\* -------------------------------------------------------------------- C21

\* C21: _cycle_check(task_id, blocker_id) returns True exactly when task_id =
\* blocker_id or blocker_id is transitively blocked by task_id over the stored
\* edges (task_id is reached from blocker_id by stepping from a task to the
\* tasks that block it), and False in every other case; stated of the tasks
\* of a store from which no task was deleted.
C21_CycleCheckIsReachability ==
    NothingDeleted =>
        \A task_id \in TaskIds, blocker_id \in TaskIds :
            (Exists(task_id) /\ Exists(blocker_id)) =>
                (_cycle_check(task_id, blocker_id)
                    <=> (task_id = blocker_id
                            \/ task_id \in TransitiveBlockers(blocker_id, Edges)))

\* -------------------------------------------------------------------- C22

\* the stored edges, when the last call was made, whose blocker was pending
\* or in_progress
ActiveBlockerEdgesBefore == {e \in EdgesBefore : ActiveBefore(e.blocker_id)}

UnknownId == MaxTasks + 1

\* the stored edges whose task and blocker are both pending or in_progress
ActiveEdges == {e \in Edges : Active(e.task_id) /\ Active(e.blocker_id)}

\* C23: whatever edge set is stored (disconnected, with two paths to a task,
\* or already cyclic), a run of _cycle_check(task_id, blocker_id) ends: it
\* looks up the blockers of each task at most once, so of no more tasks than
\* the store holds, takes at most one id off the queue per stored row plus
\* the first, and returns what _cycle_check returns.
C23_CycleCheckExpandsEachTaskOnce ==
    \A task_id \in TaskIds \cup {UnknownId}, blocker_id \in TaskIds :
        Exists(blocker_id) =>
            LET run == _cycle_check_run(task_id, blocker_id)
            IN  /\ \A i, j \in DOMAIN run.expanded :
                        run.expanded[i] = run.expanded[j] => i = j
                /\ Len(run.expanded) <= Cardinality({t \in TaskIds : Exists(t)})
                /\ run.popped <= Len(deps) + 1
                /\ run.found = _cycle_check(task_id, blocker_id)

\* the pending and in_progress tasks form a cycle, and a search that starts
\* on it ran to the end having looked up the blockers of each task of the
\* cycle once
C23_Witness ==
    /\ ~Acyclic(ActiveEdges)
    /\ \E blocker_id \in TaskIds :
        /\ Active(blocker_id)
        /\ blocker_id \in TransitiveBlockers(blocker_id, ActiveEdges)
        /\ ~_cycle_check_run(UnknownId, blocker_id).found
        /\ Len(_cycle_check_run(UnknownId, blocker_id).expanded) > 1
        /\ _cycle_check_run(UnknownId, blocker_id).popped
                > Len(_cycle_check_run(UnknownId, blocker_id).expanded)

\* -------------------------------------------------------------------- C24

\* the tasks of the store that lie on a cycle of the stored edges
OnACycle == {c \in TaskIds : Exists(c) /\ c \in TransitivelyBlockedBy(c)}

\* the tasks of the store from which a cycle of the stored edges is reached:
\* the task is on one or transitively blocks a task that is
ReachingACycle ==
    LET cyclic == OnACycle
    IN  {t \in TaskIds : Exists(t) /\ (({t} \cup TransitivelyBlockedBy(t)) \cap cyclic) # {}}

\* C24: when a cycle of the stored edges is reached from one of the tasks
\* given to calculate_effective_priorities (or, without a task list, from one
\* of the pending and in_progress tasks), the call ends, by raising
\* RecursionError, and returns no priority map.
C24_CycleEndsInFailure ==
    LET reaching == ReachingACycle
    IN  reaching # {} =>
            /\ \A task_ids \in TaskLists :
                    (Range(task_ids) \cap reaching # {}) =>
                        calculate_effective_priorities(task_ids)
                            = [result |-> RecursionError, memo |-> <<>>]
            /\ (Range(task_id_of(list_tasks_with_deps)) \cap reaching # {}) =>
                    calculate_effective_priorities_None
                        = [result |-> RecursionError, memo |-> <<>>]

\* a stored cycle on which a task is pending or in_progress and another is
\* completed or cancelled: the call without a task list fails, and so does the
\* call for the closed task alone
C24_Witness ==
    /\ OnACycle # {}
    /\ Range(task_id_of(list_tasks_with_deps)) \cap ReachingACycle # {}
    /\ calculate_effective_priorities_None.result = RecursionError
    /\ calculate_effective_priorities_None.memo = <<>>
    /\ \E t \in OnACycle :
        /\ Closed(t)
        /\ calculate_effective_priorities(<<t>>).result = RecursionError

\* -------------------------------------------------------------------- C25

\* both callers have returned from add_dependency(A, B) and add_dependency(B,
\* A), for two tasks A and B, and each cycle check ran while no edge between A
\* and B was stored
BothCheckedBeforeEitherInsert ==
    LET first == callers["first"]
        second == callers["second"]
    IN  /\ first.pc = "returned" /\ second.pc = "returned"
        /\ first.task_id # first.blocker_id
        /\ second.task_id = first.blocker_id /\ second.blocker_id = first.task_id
        /\ first.result # ClosedError /\ second.result # ClosedError
        /\ \A caller \in Callers : callers[caller].seen = <<>>

\* C25: when two callers run add_dependency(A, B) and add_dependency(B, A) on
\* pending tasks A and B with no edge stored, the closed-task test, the cycle
\* check and the insert being separate steps, and both cycle checks run before
\* either insert, then both cycle checks pass and both inserts succeed, and
\* the stored edge set holds the cycle A -> B -> A; such an interleaving
\* exists (C25_Witness).
C25_RaceAdmitsACycle ==
    BothCheckedBeforeEitherInsert =>
        /\ callers["first"].result = OK /\ callers["second"].result = OK
        /\ Edge(callers["first"].task_id, callers["first"].blocker_id) \in Edges
        /\ Edge(callers["first"].blocker_id, callers["first"].task_id) \in Edges
        /\ ~Acyclic(Edges)

\* the end of the interleaving: both calls returned without error and the two
\* edges between tasks 1 and 2 are stored
C25_Witness ==
    /\ BothCheckedBeforeEitherInsert
    /\ callers["first"].result = OK /\ callers["second"].result = OK
    /\ callers["first"].task_id = 1 /\ callers["first"].blocker_id = 2
    /\ {Edge(1, 2), Edge(2, 1)} \subseteq Edges
    /\ 1 \in TransitiveBlockers(1, Edges)

\* -------------------------------------------------------------------- C26

QueryOps ==
    {"get_blockers", "get_blocked", "_cycle_check", "calculate_effective_priorities",
     "calculate_effective_priorities_None", "list_tasks_with_priority"}

\* what the query of the last call returns when it is called again now
CalledAgain ==
    IF last.op = "get_blockers" THEN get_blockers(last.a)
    ELSE IF last.op = "get_blocked" THEN get_blocked(last.a)
    ELSE IF last.op = "_cycle_check" THEN _cycle_check(last.a, last.b)
    ELSE IF last.op = "list_tasks_with_priority" THEN list_tasks_with_priority(last.a).rows
    ELSE IF last.op = "calculate_effective_priorities_None"
    THEN calculate_effective_priorities_None.memo
    ELSE calculate_effective_priorities(last.a).memo

C27_EdgesChangeOnlyByAddAndRemove ==
    /\ (last.op = "add_dependency" /\ last.result = OK) =>
            deps = Append(last.deps, Edge(last.a, last.b))
    /\ (last.op = "remove_dependency" /\ last.result = OK) =>
            /\ deps = SelectSeq(last.deps, LAMBDA d : d # Edge(last.a, last.b))
            /\ Len(deps) + 1 = Len(last.deps)
    /\ (last.op \in {"add_dependency", "remove_dependency"} /\ last.result # OK) =>
            deps = last.deps
    /\ last.op \in {"create_task", "update_task"} => deps = last.deps

\* a task that blocks another was completed or cancelled, and the row naming
\* it as blocker is still stored
C27_Witness ==
    /\ last.op = "update_task" /\ last.result = OK
    /\ last.b \in {COMPLETED, CANCELLED}
    /\ \E i \in DOMAIN deps : deps[i].blocker_id = last.a /\ Exists(deps[i].task_id)
    /\ deps = last.deps
    /\ Len(deps) > 1

\* -------------------------------------------------------------------- C28

\* the place of a stored edge in the order of creation of the rows: add_dependency
\* puts a row after all the rows stored, with the created_at of the call
CreatedAt(edge) == CHOOSE i \in DOMAIN deps : deps[i] = edge

\* C28: get_blockers(t) and get_blocked(b) return tasks of stored edges, one
\* task per edge, in ascending order of the creation of the edges, whatever
\* the order in which the tasks were created and whatever was removed or
\* added again before.
C28_ResultsInEdgeCreationOrder ==
    \A t \in TaskIds :
        /\ \A i, j \in DOMAIN get_blockers(t) :
                /\ Edge(t, get_blockers(t)[i]) \in Range(deps)
                /\ i < j => CreatedAt(Edge(t, get_blockers(t)[i]))
                                < CreatedAt(Edge(t, get_blockers(t)[j]))
        /\ \A i, j \in DOMAIN get_blocked(t) :
                /\ Edge(get_blocked(t)[i], t) \in Range(deps)
                /\ i < j => CreatedAt(Edge(get_blocked(t)[i], t))
                                < CreatedAt(Edge(get_blocked(t)[j], t))

\* the edge added last joins two tasks that each have an older edge with a
\* task created later: the task created first comes last in both results
C28_Witness ==
    /\ last.op = "add_dependency" /\ last.result = OK
    /\ Len(last.deps) > 1
    /\ \E x \in TaskIds :
        /\ x > last.a
        /\ get_blocked(last.b) = <<x, last.a>>
    /\ \E y \in TaskIds :
        /\ y > last.b
        /\ get_blockers(last.a) = <<y, last.b>>

\* -------------------------------------------------------------------- C29

\* t is blocked by b as get_blockers reports it
ReportedEdges == {e \in Edges : e.blocker_id \in Range(get_blockers(e.task_id))}

\* C29: as long as no completed or cancelled task is moved back to pending or
\* in_progress, the stored edges whose task and blocker are both pending or
\* in_progress form an acyclic graph, and no pending or in_progress task is
\* reached from itself by going from a task to the blockers get_blockers
\* reports for it.
C29_ActiveEdgesAcyclic ==
    /\ Acyclic(ActiveEdges)
    /\ \A t \in TaskIds : Active(t) => t \notin TransitiveBlockers(t, ReportedEdges)

\* the stored edges hold a cycle through a completed or cancelled task, and
\* the edges between pending and in_progress tasks, of which there is one on
\* that cycle, hold none
C29_Witness ==
    /\ ~Acyclic(Edges)
    /\ Acyclic(ActiveEdges)
    /\ \E e \in ActiveEdges : e.task_id \in TransitiveBlockers(e.task_id, Edges)
    /\ \E t \in TaskIds : Closed(t) /\ t \in TransitiveBlockers(t, Edges)

\* -------------------------------------------------------------------- C30

\* C30: in the map calculate_effective_priorities returns, the priority of a
\* task b of the store is at least the intrinsic priority of every task
\* transitively blocked by b, whatever the status of that task: pending,
\* in_progress, completed or cancelled.
C30_BlockedStatusIgnored ==
    \A task_ids \in TaskLists \cup {task_id_of(list_tasks_with_deps)} :
        LET call == calculate_effective_priorities(task_ids)
        IN  call.result = OK =>
                \A b \in DOMAIN call.memo :
                    Exists(b) =>
                        \A x \in TransitivelyBlockedBy(b) :
                            /\ x \in DOMAIN call.memo
                            /\ AtLeast(call.memo[b], Intrinsic(x))

\* a pending or in_progress task whose priority in the map is above its own
\* and is the intrinsic priority of a completed or cancelled task it blocks,
\* no pending or in_progress task it blocks having a priority that high
C30_Witness ==
    /\ calculate_effective_priorities_None.result = OK
    /\ \E b \in DOMAIN calculate_effective_priorities_None.memo :
        /\ Active(b)
        /\ Greater(calculate_effective_priorities_None.memo[b], Intrinsic(b))
        /\ \E x \in TransitivelyBlockedBy(b) :
            /\ Closed(x)
            /\ SamePriority(calculate_effective_priorities_None.memo[b], Intrinsic(x))
        /\ \A x \in TransitivelyBlockedBy(b) :
            Active(x) => Greater(calculate_effective_priorities_None.memo[b], Intrinsic(x))

====
